---- MODULE Spec2Model ----
(***************************************************************************)
(* Model of scripts/add-meetup.py: the date resolver                       *)
(* (first_friday_of_month, next_first_friday), the time normalizer         *)
(* (parse_time), the record builder and the two store writers              *)
(* (update_json, update_md) as driven by main().                           *)
(*                                                                         *)
(* Strings that the program inspects character by character (the --time    *)
(* and --date values, the canonical time) are sequences of one-character   *)
(* strings; strings it only copies or concatenates (topic, presenter       *)
(* names, the formatted date, paths) are TLA+ strings.                     *)
(***************************************************************************)
EXTENDS Integers, Sequences, FiniteSets, TLC

(***************************************************************************)
(* Bounds of the model.                                                    *)
(***************************************************************************)
\* first ordinary calendar year the inputs are drawn from
BaseYear == 2025
\* number of consecutive ordinary years, starting at BaseYear
NumYears == 3
\* number of invocations of main() in a sequential history
MaxRuns == 2

(***************************************************************************)
(* datetime.date: the proleptic Gregorian calendar, years MINYEAR..MAXYEAR *)
(***************************************************************************)
MINYEAR == 1
MAXYEAR == 9999

\* The years inputs are drawn from: a few ordinary years and the last two
\* years a date can represent.
Years == (BaseYear .. (BaseYear + NumYears - 1)) \cup {MAXYEAR - 1, MAXYEAR}

IsLeap(y) == (y % 4 = 0) /\ ((y % 100 # 0) \/ (y % 400 = 0))

DaysInMonth(y, m) ==
    IF m = 2 THEN (IF IsLeap(y) THEN 29 ELSE 28)
    ELSE IF m \in {4, 6, 9, 11} THEN 30 ELSE 31

\* date(year, month, day): the constructor raises ValueError outside the
\* calendar.
ValidDate(y, m, d) ==
    /\ y \in MINYEAR..MAXYEAR
    /\ m \in 1..12
    /\ d \in 1..DaysInMonth(y, m)

\* The value of an expression that raised ValueError / OverflowError.
DateError == [year |-> 0, month |-> 0, day |-> 0]

MkDate(y, m, d) ==
    IF ValidDate(y, m, d) THEN [year |-> y, month |-> m, day |-> d]
    ELSE DateError

IsDate(x) == x # DateError

Dates == {MkDate(y, m, d) : y \in Years, m \in 1..12, d \in 1..31} \ {DateError}

DaysBeforeYear(y) ==
    (y - 1) * 365 + ((y - 1) \div 4) - ((y - 1) \div 100) + ((y - 1) \div 400)

RECURSIVE DaysBeforeMonth(_, _)
DaysBeforeMonth(y, m) ==
    IF m = 1 THEN 0 ELSE DaysBeforeMonth(y, m - 1) + DaysInMonth(y, m - 1)

\* date.toordinal(): 0001-01-01 is day 1
ToOrdinal(dt) == DaysBeforeYear(dt.year) + DaysBeforeMonth(dt.year, dt.month) + dt.day

\* date.weekday(): Monday == 0 ... Sunday == 6
Weekday(dt) == (ToOrdinal(dt) + 6) % 7

\* The day after dt; DateError after 9999-12-31.
NextDay(dt) ==
    IF dt.day < DaysInMonth(dt.year, dt.month)
      THEN MkDate(dt.year, dt.month, dt.day + 1)
    ELSE IF dt.month < 12 THEN MkDate(dt.year, dt.month + 1, 1)
    ELSE MkDate(dt.year + 1, 1, 1)

\* dt + timedelta(days=n), n >= 0
RECURSIVE AddDays(_, _)
AddDays(dt, n) ==
    IF ~IsDate(dt) THEN DateError
    ELSE IF n = 0 THEN dt
    ELSE AddDays(NextDay(dt), n - 1)

\* a < b on dates (comparison of (year, month, day))
DateLess(a, b) ==
    \/ a.year < b.year
    \/ a.year = b.year /\ a.month < b.month
    \/ a.year = b.year /\ a.month = b.month /\ a.day < b.day

\* Friday == weekday 4: the number of days from weekday wd to the next Friday
days_until_friday_off(wd) == (5 - wd) % 7

days_until_friday(wd) == (4 - wd) % 7

first_friday_of_month(year, month) ==
    LET d == MkDate(year, month, 1)
    IN  IF ~IsDate(d) THEN DateError
        ELSE AddDays(d, days_until_friday(Weekday(d)))

\* ff > today
after_today_or_same(ff, today) == ~DateLess(ff, today)

after_today(ff, today) == DateLess(today, ff)

\* next_month > 12: roll over into January of the next year
rollover_keep_year(today) ==
    IF today.month + 1 > 12 THEN [year |-> today.year, month |-> 1]
    ELSE [year |-> today.year, month |-> today.month + 1]

rollover(today) ==
    IF today.month + 1 > 12 THEN [year |-> today.year + 1, month |-> 1]
    ELSE [year |-> today.year, month |-> today.month + 1]

next_first_friday(today) ==
    LET ff == first_friday_of_month(today.year, today.month)
    IN  IF after_today(ff, today) THEN ff
        ELSE LET nm == rollover(today)
             IN  first_friday_of_month(nm.year, nm.month)

(***************************************************************************)
(* Character strings.                                                      *)
(***************************************************************************)
Digits == {"0", "1", "2", "3", "4", "5", "6", "7", "8", "9"}

\* whitespace: what str.strip() removes and what \s matches
Whitespace == {" ", "\t", "\n"}

DigitVal(c) ==
    CASE c = "0" -> 0 [] c = "1" -> 1 [] c = "2" -> 2 [] c = "3" -> 3
      [] c = "4" -> 4 [] c = "5" -> 5 [] c = "6" -> 6 [] c = "7" -> 7
      [] c = "8" -> 8 [] c = "9" -> 9

\* int() of a sequence of decimal digits
RECURSIVE IntOf(_)
IntOf(cs) ==
    IF cs = <<>> THEN 0
    ELSE IntOf(SubSeq(cs, 1, Len(cs) - 1)) * 10 + DigitVal(cs[Len(cs)])

AllDigits(cs) == \A i \in 1..Len(cs) : cs[i] \in Digits

RECURSIVE LStrip(_)
LStrip(cs) ==
    IF cs # <<>> /\ Head(cs) \in Whitespace THEN LStrip(Tail(cs)) ELSE cs

RECURSIVE RStrip(_)
RStrip(cs) ==
    IF cs # <<>> /\ cs[Len(cs)] \in Whitespace
    THEN RStrip(SubSeq(cs, 1, Len(cs) - 1)) ELSE cs

\* str.strip()
Strip(cs) == RStrip(LStrip(cs))

\* f"{n:02d}": at least two digits, zero-padded
Pad2(n) == IF n < 10 THEN "0" \o ToString(n) ELSE ToString(n)

\* str.upper() of a meridiem letter
Upper(c) ==
    CASE c \in {"a", "A"} -> "A"
      [] c \in {"p", "P"} -> "P"
      [] c \in {"m", "M"} -> "M"
      [] OTHER -> c

(***************************************************************************)
(* Time normalizer.                                                        *)
(***************************************************************************)
\* The value of parse_time when it raises ValueError.
TimeError == "ValueError"

\* f"{hour:02d}:{minute:02d} {ampm}"
time_format(hour, minute, ampm) ==
    Pad2(hour) \o ":" \o Pad2(minute) \o " " \o ampm

\* re.fullmatch(r'(\d{1,2}):(\d{2})\s*(am|pm)', s, re.IGNORECASE) with k hour
\* digits: the groups, or no match
TimeMatch(s, k) ==
    LET n == Len(s)
    IN  /\ n >= k + 5
        /\ AllDigits(SubSeq(s, 1, k))
        /\ s[k + 1] = ":"
        /\ AllDigits(SubSeq(s, k + 2, k + 3))
        /\ \A i \in (k + 4)..(n - 2) : s[i] \in Whitespace
        /\ Upper(s[n - 1]) \in {"A", "P"}
        /\ Upper(s[n]) = "M"

parse_time(time_str) ==
    LET s == Strip(time_str)
    IN  IF \E k \in 1..2 : TimeMatch(s, k)
        THEN LET k == CHOOSE j \in 1..2 : TimeMatch(s, j)
                 n == Len(s)
                 hour == IntOf(SubSeq(s, 1, k))
                 minute == IntOf(SubSeq(s, k + 2, k + 3))
                 ampm == Upper(s[n - 1]) \o Upper(s[n])
             IN  time_format(hour, minute, ampm)
        ELSE TimeError

(***************************************************************************)
(* Dates as text.                                                          *)
(***************************************************************************)
\* date.fromisoformat(s): yyyy-mm-dd, and since Python 3.11 the basic form
\* yyyymmdd as well (the week forms are not among the inputs drawn here);
\* DateError when it raises ValueError.
fromisoformat(s) ==
    IF /\ Len(s) = 10
       /\ s[5] = "-" /\ s[8] = "-"
       /\ AllDigits(SubSeq(s, 1, 4)) /\ AllDigits(SubSeq(s, 6, 7))
       /\ AllDigits(SubSeq(s, 9, 10))
    THEN MkDate(IntOf(SubSeq(s, 1, 4)), IntOf(SubSeq(s, 6, 7)), IntOf(SubSeq(s, 9, 10)))
    ELSE IF Len(s) = 8 /\ AllDigits(s)
    THEN MkDate(IntOf(SubSeq(s, 1, 4)), IntOf(SubSeq(s, 5, 6)), IntOf(SubSeq(s, 7, 8)))
    ELSE DateError

\* strftime("%B")
MonthName(m) ==
    CASE m = 1 -> "January" [] m = 2 -> "February" [] m = 3 -> "March"
      [] m = 4 -> "April" [] m = 5 -> "May" [] m = 6 -> "June"
      [] m = 7 -> "July" [] m = 8 -> "August" [] m = 9 -> "September"
      [] m = 10 -> "October" [] m = 11 -> "November" [] m = 12 -> "December"

\* d.strftime("%B %d, %Y")
format_date(d) ==
    MonthName(d.month) \o " " \o Pad2(d.day) \o ", " \o ToString(d.year)

(***************************************************************************)
(* Record builder.                                                         *)
(***************************************************************************)
\* ", ".join(presenters)
RECURSIVE join(_)
join(names) ==
    IF Len(names) = 1 THEN names[1]
    ELSE names[1] \o ", " \o join(Tail(names))

build_entry(meetup_date, time_str, topic, presenters) ==
    [date |-> format_date(meetup_date),
     time |-> time_str,
     topic |-> topic,
     presentation |-> join(presenters)]

(***************************************************************************)
(* Store writer.  The file system is the set of directories that exist and *)
(* a function from the paths of the files that exist to their contents.    *)
(* A structured file holds a sequence of entries (json.dump and json.load  *)
(* of a list of string-valued objects carry the list unchanged).  A text   *)
(* file is its sequence of lines; a line "Label: value\n" is the pair of   *)
(* its label and its value, and the empty line "\n" is BlankLine.  Topics  *)
(* and names hold no line breaks.  A read or a write of a file is one      *)
(* whole operation: it takes place or it raises and changes nothing.       *)
(***************************************************************************)
get_paths(year) ==
    LET year_dir == "MeetUps " \o ToString(year)
    IN  [year_dir |-> year_dir,
         json_path |-> year_dir \o "/MeetUps " \o ToString(year) \o ".json",
         md_path |-> year_dir \o "/MeetUps " \o ToString(year) \o ".md"]

\* os.path.exists(path)
exists(fs, path) == path \in DOMAIN fs

\* open(path, "w") and the write that follows
write_file(fs, path, content) ==
    [q \in (DOMAIN fs) \cup {path} |-> IF q = path THEN content ELSE fs[q]]

\* update_json, lines 112-116: the data loaded, [] without a file
json_load(fs, json_path) ==
    IF exists(fs, json_path) THEN fs[json_path] ELSE <<>>

\* data.append(entry)
json_insert_last(data, entry) == Append(data, entry)

\* data.insert(0, entry)
json_insert(data, entry) == <<entry>> \o data

update_json(fs, json_path, entry) ==
    write_file(fs, json_path, json_insert(json_load(fs, json_path), entry))

BlankLine == [label |-> "", value |-> ""]

\* update_md, lines 124-129
md_block(entry) ==
    << [label |-> "Date", value |-> entry.date],
       [label |-> "Time", value |-> entry.time],
       [label |-> "Topic", value |-> entry.topic],
       [label |-> "Presentation", value |-> entry.presentation] >>

\* update_md, lines 130-132: whether the file exists, and its text
md_read(fs, md_path) ==
    [found |-> exists(fs, md_path),
     existing |-> IF exists(fs, md_path) THEN fs[md_path] ELSE <<>>]

\* existing + "\n" + block
md_content_last(block, rd) ==
    IF rd.found THEN rd.existing \o <<BlankLine>> \o block ELSE block

\* update_md, lines 133-135: block + "\n" + existing, or block alone
md_content(block, rd) ==
    IF rd.found THEN block \o <<BlankLine>> \o rd.existing ELSE block

update_md(fs, md_path, entry) ==
    write_file(fs, md_path, md_content(md_block(entry), md_read(fs, md_path)))

\* which call raises OSError in a run, if any
Failures == {"none", "makedirs", "update_json", "update_md"}

\* update_md(md_path, entry) before update_json(json_path, entry)
write_store_md_first(ds, fs, year, entry, fail) ==
    LET p == get_paths(year)
        ds1 == ds \cup {p.year_dir}
        fs1 == update_md(fs, p.md_path, entry)
        fs2 == update_json(fs1, p.json_path, entry)
    IN  IF fail = "makedirs" THEN [exit |-> 1, dirs |-> ds, files |-> fs]
        ELSE IF fail = "update_md" THEN [exit |-> 1, dirs |-> ds1, files |-> fs]
        ELSE IF fail = "update_json" THEN [exit |-> 1, dirs |-> ds1, files |-> fs1]
        ELSE [exit |-> 0, dirs |-> ds1, files |-> fs2]

\* main, lines 191-196: makedirs, update_json, update_md; the first call that
\* raises ends the process (an uncaught exception: exit code 1) with what
\* the earlier calls wrote left in place.
write_store(ds, fs, year, entry, fail) ==
    LET p == get_paths(year)
        ds1 == ds \cup {p.year_dir}
        fs1 == update_json(fs, p.json_path, entry)
        fs2 == update_md(fs1, p.md_path, entry)
    IN  IF fail = "makedirs" THEN [exit |-> 1, dirs |-> ds, files |-> fs]
        ELSE IF fail = "update_json" THEN [exit |-> 1, dirs |-> ds1, files |-> fs]
        ELSE IF fail = "update_md" THEN [exit |-> 1, dirs |-> ds1, files |-> fs1]
        ELSE [exit |-> 0, dirs |-> ds1, files |-> fs2]

(***************************************************************************)
(* main().  args is what argparse hands over: date_given is FALSE when     *)
(* --date is absent (args.date is None), date and time are the option      *)
(* values, character by character.                                         *)
(***************************************************************************)
\* main, line 163: if args.date  (None and "" are both false)
date_requested(args) == args.date_given /\ args.date # <<>>

\* main, lines 162-171: the meetup date, DateError when the run ends there
\* (sys.exit(1) on a bad --date; the uncaught ValueError of
\* next_first_friday, which ends the process with exit code 1 as well)
resolve_date(args, today) ==
    IF date_requested(args) THEN fromisoformat(args.date)
    ELSE next_first_friday(today)

\* year = today.year
store_year_of_today(meetup_date, today) == today.year

\* main, line 180: year = meetup_date.year
store_year(meetup_date, today) == meetup_date.year

\* main, lines 160-204: the exit code and the file system it leaves
main(ds, fs, today, args, fail) ==
    LET meetup_date == resolve_date(args, today)
        time_str == parse_time(args.time)
    IN  IF ~IsDate(meetup_date) THEN [exit |-> 1, dirs |-> ds, files |-> fs]
        ELSE IF time_str = TimeError THEN [exit |-> 1, dirs |-> ds, files |-> fs]
        ELSE write_store(ds, fs, store_year(meetup_date, today),
                         build_entry(meetup_date, time_str, args.topic, args.presenters),
                         fail)

(***************************************************************************)
(* State.                                                                  *)
(*   dOp, dArg, dRes : a call of a date-resolver function: which one, its  *)
(*                     argument and what it returned                       *)
(*   dirs, files     : the file system under the repository root           *)
(*   runs            : the number of invocations of main() so far          *)
(*   last            : the latest invocation: date.today(), the arguments, *)
(*                     the I/O call that raised, and the exit code         *)
(*   procs           : two invocations running at the same time: where     *)
(*                     each is in main() and the values of its locals      *)
(***************************************************************************)
VARIABLES dOp, dArg, dRes, dirs, files, runs, last, procs

vars == <<dOp, dArg, dRes, dirs, files, runs, last, procs>>

Procs == {1, 2}

NoEntry == [date |-> "", time |-> "", topic |-> "", presentation |-> ""]

\* a process that has not started
NotStarted ==
    [pc |-> "start", year |-> 0, entry |-> NoEntry, data |-> <<>>,
     rd |-> [found |-> FALSE, existing |-> <<>>], exit |-> 0]

NoFiles == [q \in {} |-> <<>>]

NoRun ==
    [today |-> DateError,
     args |-> [date_given |-> FALSE, date |-> <<>>, time |-> <<>>,
               topic |-> "", presenters |-> <<>>],
     fail |-> "none", exit |-> 0]

(***************************************************************************)
(* The date resolver as a program: a reference date is given, and one of   *)
(* the two functions is applied to it.                                     *)
(***************************************************************************)
InitDate ==
    /\ dOp = "none"
    /\ dArg \in Dates
    /\ dRes = DateError
    /\ dirs = {} /\ files = NoFiles /\ runs = 0 /\ last = NoRun
    /\ procs = [i \in Procs |-> NotStarted]

CallFirstFriday ==
    /\ dOp = "none"
    /\ dOp' = "first_friday_of_month"
    /\ dRes' = first_friday_of_month(dArg.year, dArg.month)
    /\ UNCHANGED <<dArg, dirs, files, runs, last, procs>>

CallNextFirstFriday ==
    /\ dOp = "none"
    /\ dOp' = "next_first_friday"
    /\ dRes' = next_first_friday(dArg)
    /\ UNCHANGED <<dArg, dirs, files, runs, last, procs>>

NextDate == CallFirstFriday \/ CallNextFirstFriday

SpecDate == InitDate /\ [][NextDate]_vars

(***************************************************************************)
(* Sequential invocations of the tool, starting with no year store.        *)
(***************************************************************************)
\* date.today(): a day before a first Friday, a day after December's first
\* Friday, and a day after the last first Friday of the calendar
Todays ==
    {MkDate(BaseYear + 1, 2, 27), MkDate(BaseYear, 12, 31), MkDate(MAXYEAR, 12, 15)}

\* the text yyyy-mm-dd of a year, a month and a day
IsoText(y, m, d) ==
    LET c(n) == IF n = 0 THEN "0" ELSE ToString(n)
    IN  << c(y \div 1000), c((y \div 100) % 10), c((y \div 10) % 10), c(y % 10), "-",
           c(m \div 10), c(m % 10), "-", c(d \div 10), c(d % 10) >>

\* --date values: 5 December of the first year, the empty string, a day
\* that does not exist
DateValues ==
    { IsoText(BaseYear, 12, 5), <<>>, IsoText(BaseYear + 1, 2, 30) }

\* --time values: the default, an hour and a minute out of range (with
\* whitespace around and inside), a value that is no time
TimeValues ==
    { <<"6", ":", "3", "0", "p", "m">>,
      <<" ", "1", "3", ":", "7", "5", " ", "P", "M">>,
      <<"b", "a", "d", " ", "i", "n", "p", "u", "t">> }

Topics == {"My crazy topic"}

PresenterLists == {<<"Alex Hart", "Michael Go">>}

ArgsSet ==
    { a \in [date_given : BOOLEAN, date : DateValues, time : TimeValues,
             topic : Topics, presenters : PresenterLists] :
        ~a.date_given => a.date = <<>> }

\* whether main() gets as far as its file-system calls
reaches_writes(today, args) ==
    IsDate(resolve_date(args, today)) /\ parse_time(args.time) # TimeError

Init ==
    /\ dOp = "none" /\ dArg = DateError /\ dRes = DateError
    /\ dirs = {}
    /\ files = NoFiles
    /\ runs = 0
    /\ last = NoRun
    /\ procs = [i \in Procs |-> NotStarted]

\* One invocation: date.today() is today, the command line is args, and the
\* I/O call named by fail raises (none of them can when the run ends before
\* them).
Run(today, args, fail) ==
    /\ runs < MaxRuns
    /\ (fail # "none" => reaches_writes(today, args))
    /\ LET r == main(dirs, files, today, args, fail)
       IN  /\ dirs' = r.dirs
           /\ files' = r.files
           /\ last' = [today |-> today, args |-> args, fail |-> fail, exit |-> r.exit]
    /\ runs' = runs + 1
    /\ UNCHANGED <<dOp, dArg, dRes, procs>>

Next == \E today \in Todays, args \in ArgsSet, fail \in Failures : Run(today, args, fail)

Spec == Init /\ [][Next]_vars

(***************************************************************************)
(* Properties of the date resolver.                                        *)
(***************************************************************************)
\* x is the earliest Friday of its month
IsFirstFriday(x) == IsDate(x) /\ Weekday(x) = 4 /\ x.day \in 1..7

\* the first date from which next_first_friday has no representable answer:
\* the first Friday of December of MAXYEAR
LastFirstFriday == first_friday_of_month(MAXYEAR, 12)

\* C1: first_friday_of_month(y, m) is a date of year y and month m whose day
\* is in 1..7 and whose weekday is Friday (4, Monday = 0); it is day 1 when
\* day 1 is a Friday; and it agrees with the documented examples
\* (2025-12-05, 2026-02-06, 2026-03-06, 2027-01-01).
C1_FirstFriday ==
    dOp = "first_friday_of_month" =>
        /\ IsDate(dRes)
        /\ dRes.year = dArg.year /\ dRes.month = dArg.month
        /\ dRes.day \in 1..7
        /\ Weekday(dRes) = 4
        /\ (Weekday(MkDate(dArg.year, dArg.month, 1)) = 4 => dRes.day = 1)
        /\ (dArg.year = 2025 /\ dArg.month = 12 => dRes.day = 5)
        /\ (dArg.year = 2026 /\ dArg.month \in {2, 3} => dRes.day = 6)
        /\ (dArg.year = 2027 /\ dArg.month = 1 => dRes.day = 1)

C1_Witness ==
    /\ dOp = "first_friday_of_month"
    /\ Weekday(MkDate(dArg.year, dArg.month, 1)) = 4
    /\ dRes.day = 1

\* C2 as stated: for every reference date d, next_first_friday(d) is a date
\* strictly after d that is the first Friday of its month.
C2_Original ==
    dOp = "next_first_friday" =>
        /\ IsDate(dRes)
        /\ DateLess(dArg, dRes)
        /\ IsFirstFriday(dRes)
        /\ dRes = first_friday_of_month(dRes.year, dRes.month)

\* C2 amended: for every reference date d before the first Friday of
\* December of year 9999, next_first_friday(d) is a date strictly after d
\* that is the first Friday of its month; from that date on the call raises
\* ValueError (year 10000 is out of range) and returns nothing.
C2_NextStrictlyAfter ==
    dOp = "next_first_friday" =>
        IF DateLess(dArg, LastFirstFriday)
        THEN /\ IsDate(dRes)
             /\ DateLess(dArg, dRes)
             /\ IsFirstFriday(dRes)
             /\ dRes = first_friday_of_month(dRes.year, dRes.month)
        ELSE ~IsDate(dRes)

C2_Witness ==
    /\ dOp = "next_first_friday"
    /\ IsFirstFriday(dArg)
    /\ IsDate(dRes)
    /\ DateLess(dArg, dRes)

\* no first Friday of a month lies strictly between a and b
NoFirstFridayBetween(a, b) ==
    \A x \in Dates : (DateLess(a, x) /\ DateLess(x, b)) => ~IsFirstFriday(x)

\* the month after d's, as (year, month)
FollowingMonth(d) ==
    IF d.month = 12 THEN <<d.year + 1, 1>> ELSE <<d.year, d.month + 1>>

\* C3 as stated: next_first_friday(d) is the closest first Friday strictly
\* after d; on the first Friday of a month it is the first Friday of the
\* following month; on or after December's first Friday it is the first
\* Friday of January of year(d) + 1.
C3_Original ==
    dOp = "next_first_friday" =>
        /\ IsFirstFriday(dRes)
        /\ DateLess(dArg, dRes)
        /\ NoFirstFridayBetween(dArg, dRes)
        /\ (IsFirstFriday(dArg) =>
                <<dRes.year, dRes.month>> = FollowingMonth(dArg))
        /\ (dArg.month = 12 /\ ~DateLess(dArg, first_friday_of_month(dArg.year, 12)) =>
                dRes.year = dArg.year + 1 /\ dRes.month = 1)

\* C3 amended: the same, for every reference date d before the first Friday
\* of December of year 9999; from that date on no later first Friday is
\* representable and the call raises ValueError.
C3_NextIsClosest ==
    dOp = "next_first_friday" =>
        IF DateLess(dArg, LastFirstFriday)
        THEN /\ IsFirstFriday(dRes)
             /\ DateLess(dArg, dRes)
             /\ NoFirstFridayBetween(dArg, dRes)
             /\ (IsFirstFriday(dArg) =>
                    <<dRes.year, dRes.month>> = FollowingMonth(dArg))
             /\ (dArg.month = 12 /\ ~DateLess(dArg, first_friday_of_month(dArg.year, 12)) =>
                    dRes.year = dArg.year + 1 /\ dRes.month = 1)
        ELSE /\ ~IsDate(dRes)
             /\ \A x \in Dates : DateLess(dArg, x) => ~IsFirstFriday(x)

C3_Witness ==
    /\ dOp = "next_first_friday"
    /\ dArg.month = 12
    /\ IsFirstFriday(dArg)
    /\ IsDate(dRes)
    /\ dRes.year = dArg.year + 1 /\ dRes.month = 1

(***************************************************************************)
(* Two invocations at the same time, starting with no year store.  Each    *)
(* file-system call of main() is a step of its own: update_json reads the  *)
(* whole file and later writes the whole file, and so does update_md.      *)
(***************************************************************************)
InitConc ==
    /\ dOp = "none" /\ dArg = DateError /\ dRes = DateError
    /\ dirs = {}
    /\ files = NoFiles
    /\ runs = 0
    /\ last = NoRun
    /\ procs = [i \in Procs |-> NotStarted]

\* main, lines 160-189: the arguments are resolved and the entry is built,
\* or the process exits with code 1
Start(i, today, args) ==
    /\ procs[i].pc = "start"
    /\ procs' = [procs EXCEPT ![i] =
          IF reaches_writes(today, args)
          THEN [@ EXCEPT !.pc = "makedirs",
                         !.year = store_year(resolve_date(args, today), today),
                         !.entry = build_entry(resolve_date(args, today),
                                               parse_time(args.time),
                                               args.topic, args.presenters)]
          ELSE [@ EXCEPT !.pc = "exited", !.exit = 1]]
    /\ UNCHANGED <<dOp, dArg, dRes, dirs, files, runs, last>>

\* main, line 193: os.makedirs(year_dir, exist_ok=True)
MakeDirs(i) ==
    /\ procs[i].pc = "makedirs"
    /\ dirs' = dirs \cup {get_paths(procs[i].year).year_dir}
    /\ procs' = [procs EXCEPT ![i].pc = "json_read"]
    /\ UNCHANGED <<dOp, dArg, dRes, files, runs, last>>

\* update_json, lines 112-116
JsonRead(i) ==
    /\ procs[i].pc = "json_read"
    /\ procs' = [procs EXCEPT ![i].pc = "json_write",
                              ![i].data = json_load(files, get_paths(procs[i].year).json_path)]
    /\ UNCHANGED <<dOp, dArg, dRes, dirs, files, runs, last>>

\* the file is read again at the time of the write
JsonWriteFresh(i) ==
    /\ procs[i].pc = "json_write"
    /\ files' = update_json(files, get_paths(procs[i].year).json_path, procs[i].entry)
    /\ procs' = [procs EXCEPT ![i].pc = "md_read"]
    /\ UNCHANGED <<dOp, dArg, dRes, dirs, runs, last>>

\* update_json, lines 117-120
JsonWrite(i) ==
    /\ procs[i].pc = "json_write"
    /\ files' = write_file(files, get_paths(procs[i].year).json_path,
                           json_insert(procs[i].data, procs[i].entry))
    /\ procs' = [procs EXCEPT ![i].pc = "md_read"]
    /\ UNCHANGED <<dOp, dArg, dRes, dirs, runs, last>>

\* update_md, lines 130-132
MdRead(i) ==
    /\ procs[i].pc = "md_read"
    /\ procs' = [procs EXCEPT ![i].pc = "md_write",
                              ![i].rd = md_read(files, get_paths(procs[i].year).md_path)]
    /\ UNCHANGED <<dOp, dArg, dRes, dirs, files, runs, last>>

\* update_md, lines 133-137, and the end of main
MdWrite(i) ==
    /\ procs[i].pc = "md_write"
    /\ files' = write_file(files, get_paths(procs[i].year).md_path,
                           md_content(md_block(procs[i].entry), procs[i].rd))
    /\ procs' = [procs EXCEPT ![i].pc = "done"]
    /\ UNCHANGED <<dOp, dArg, dRes, dirs, runs, last>>

NextConc ==
    \E i \in Procs :
        \/ \E today \in Todays, args \in ArgsSet : Start(i, today, args)
        \/ MakeDirs(i)
        \/ JsonRead(i)
        \/ JsonWrite(i)
        \/ MdRead(i)
        \/ MdWrite(i)

SpecConc == InitConc /\ [][NextConc]_vars

(***************************************************************************)
(* Properties of sequential invocations.                                   *)
(***************************************************************************)
\* the step is an invocation of main()
IsRun == runs' = runs + 1

\* the years whose stores the inputs can reach
StoreYears == BaseYear..(BaseYear + NumYears)

\* the structured sequence of a year store ([] without a file)
Records(fs, year) == json_load(fs, get_paths(year).json_path)

MalformedBlock == [date |-> "?", time |-> "?", topic |-> "?", presentation |-> "?"]

\* the records a text reads as: four labelled lines a block, one blank line
\* between two blocks
RECURSIVE MdBlocks(_)
MdBlocks(lines) ==
    IF lines = <<>> THEN <<>>
    ELSE IF /\ Len(lines) >= 4
            /\ lines[1].label = "Date" /\ lines[2].label = "Time"
            /\ lines[3].label = "Topic" /\ lines[4].label = "Presentation"
    THEN LET e == [date |-> lines[1].value, time |-> lines[2].value,
                   topic |-> lines[3].value, presentation |-> lines[4].value]
         IN  IF Len(lines) = 4 THEN <<e>>
             ELSE IF Len(lines) >= 6 /\ lines[5].label = ""
             THEN <<e>> \o MdBlocks(SubSeq(lines, 6, Len(lines)))
             ELSE <<e, MalformedBlock>>
    ELSE <<MalformedBlock>>

\* the block sequence of a year's text mirror (empty without a file)
Blocks(fs, year) ==
    LET p == get_paths(year).md_path
    IN  IF exists(fs, p) THEN MdBlocks(fs[p]) ELSE <<>>

\* a --date value in the form yyyy-mm-dd that names a day of the calendar
ValidIsoDate(s) ==
    /\ Len(s) = 10
    /\ s[5] = "-" /\ s[8] = "-"
    /\ AllDigits(SubSeq(s, 1, 4)) /\ AllDigits(SubSeq(s, 6, 7))
    /\ AllDigits(SubSeq(s, 9, 10))
    /\ ValidDate(IntOf(SubSeq(s, 1, 4)), IntOf(SubSeq(s, 6, 7)), IntOf(SubSeq(s, 9, 10)))

\* the canonical texts of the times of day: hour 1..12, minute 0..59, AM or PM
WellFormedTimes ==
    { Pad2(h) \o ":" \o Pad2(m) \o " " \o ap :
        h \in 1..12, m \in 0..59, ap \in {"AM", "PM"} }

\* the date and the record of an invocation r that got as far as writing
RunDate(r) == resolve_date(r.args, r.today)

RunEntry(r) ==
    build_entry(RunDate(r), parse_time(r.args.time), r.args.topic, r.args.presenters)

\* C4 as stated: a run whose --date value is not a valid yyyy-mm-dd calendar
\* date, or whose --time value fails parse_time, ends with exit code 1 and
\* leaves directories and files as they were (stated here of the runs in
\* which no file-system call raises).
C4_ValidationBeforeWrites ==
    [][ (IsRun /\ last'.fail = "none"
               /\ (\/ last'.args.date_given /\ ~ValidIsoDate(last'.args.date)
                   \/ parse_time(last'.args.time) = TimeError))
            => (last'.exit = 1 /\ dirs' = dirs /\ files' = files) ]_vars

\* C5: a successful run for year Y leaves the structured sequence of Y equal
\* to the new record followed by the sequence it held before, and the block
\* sequence of the text mirror of Y likewise; when Y had neither file, both
\* hold exactly one entry afterwards.
C5_PrependOnly ==
    [][ (IsRun /\ last'.exit = 0) =>
            LET y == RunDate(last').year
                e == RunEntry(last')
                p == get_paths(y)
            IN  /\ Records(files', y) = <<e>> \o Records(files, y)
                /\ Len(Records(files', y)) = Len(Records(files, y)) + 1
                /\ Blocks(files', y) = <<e>> \o Blocks(files, y)
                /\ Len(Blocks(files', y)) = Len(Blocks(files, y)) + 1
                /\ (~exists(files, p.json_path) /\ ~exists(files, p.md_path) =>
                        /\ exists(files', p.json_path) /\ exists(files', p.md_path)
                        /\ Len(Records(files', y)) = 1
                        /\ Len(Blocks(files', y)) = 1) ]_vars

\* a second record lies before a different first one in both files
C5_Witness ==
    /\ runs = 2 /\ last.exit = 0
    /\ LET y == RunDate(last).year
       IN  /\ Len(Records(files, y)) = 2
           /\ Len(Blocks(files, y)) = 2
           /\ Records(files, y)[1] = RunEntry(last)
           /\ Records(files, y)[1] # Records(files, y)[2]

\* the two representations of a year hold the same records in the same order
Parity(fs, year) == Records(fs, year) = Blocks(fs, year)

\* C6: every year store is in parity at the start (absent), and a run in
\* which both writes succeed takes a file system whose year stores are in
\* parity to one whose year stores are in parity.
C6_Parity ==
    /\ \A y \in StoreYears : Parity(files, y)
    /\ [][ (IsRun /\ last'.exit = 0 /\ \A y \in StoreYears : Parity(files, y))
              => \A y \in StoreYears : Parity(files', y) ]_vars

C6_Witness ==
    /\ runs = 2 /\ last.exit = 0
    /\ \E y \in StoreYears :
          /\ Len(Records(files, y)) = 2
          /\ Records(files, y)[1] # Records(files, y)[2]
          /\ Parity(files, y)

\* C7 as stated: the time field of every record in a store is the canonical
\* text of a time of day with hour in 1..12 and minute in 0..59.
C7_WellFormedTime ==
    \A y \in StoreYears :
        \A i \in 1..Len(Records(files, y)) :
            Records(files, y)[i].time \in WellFormedTimes

\* the paths of the store of a year
StorePaths(year) == {get_paths(year).json_path, get_paths(year).md_path}

\* C8: a successful run writes the new record at the front of both files of
\* the year of its resolved date and changes no file and creates no directory
\* of another year; in particular a run without --date whose next first
\* Friday falls in year(today) + 1 writes to the store of year(today) + 1 and
\* leaves the store of year(today) unchanged.
C8_KeyedByResolvedYear ==
    [][ (IsRun /\ last'.exit = 0) =>
            LET y == RunDate(last').year
                e == RunEntry(last')
            IN  /\ Records(files', y) # <<>> /\ Head(Records(files', y)) = e
                /\ Blocks(files', y) # <<>> /\ Head(Blocks(files', y)) = e
                /\ dirs' = dirs \cup {get_paths(y).year_dir}
                /\ \A q \in (DOMAIN files) \cup (DOMAIN files') :
                      q \notin StorePaths(y) =>
                          q \in DOMAIN files /\ q \in DOMAIN files' /\ files'[q] = files[q]
                /\ (~last'.args.date_given
                      /\ next_first_friday(last'.today).year = last'.today.year + 1
                    => /\ y = last'.today.year + 1
                       /\ Records(files', last'.today.year) = Records(files, last'.today.year)
                       /\ Blocks(files', last'.today.year) = Blocks(files, last'.today.year)) ]_vars

\* a defaulted date rolled into the next year while the store of the year of
\* invocation exists
C8_Witness ==
    /\ runs = 2 /\ last.exit = 0
    /\ ~last.args.date_given
    /\ RunDate(last).year = last.today.year + 1
    /\ Len(Records(files, last.today.year)) = 1
    /\ Len(Records(files, last.today.year + 1)) = 1

\* C10: a run whose text-mirror write raises after its structured write
\* succeeded ends with exit code 1, the structured file holding the new
\* record in front of what it held and the text mirror as it was; and no run
\* changes the text mirror of a year while leaving its structured file as it
\* was.
C10_StructuredFirst ==
    [][ IsRun =>
          /\ (last'.fail = "update_md" =>
                LET y == RunDate(last').year
                    p == get_paths(y)
                IN  /\ last'.exit = 1
                    /\ Records(files', y) = <<RunEntry(last')>> \o Records(files, y)
                    /\ exists(files', p.md_path) = exists(files, p.md_path)
                    /\ Blocks(files', y) = Blocks(files, y)
                    /\ Records(files', y) # Blocks(files', y))
          /\ \A y \in StoreYears :
                Blocks(files', y) # Blocks(files, y) =>
                    Records(files', y) # Records(files, y) ]_vars

C10_Witness ==
    /\ runs >= 1 /\ last.fail = "update_md" /\ last.exit = 1
    /\ LET y == RunDate(last).year
       IN  /\ Records(files, y) # <<>> /\ Head(Records(files, y)) = RunEntry(last)
           /\ Len(Blocks(files, y)) = Len(Records(files, y)) - 1

(***************************************************************************)
(* Properties of concurrent invocations.                                   *)
(***************************************************************************)
\* both invocations ran to their end without an error, on the same year
BothDone ==
    /\ \A i \in Procs : procs[i].pc = "done"
    /\ procs[1].year = procs[2].year

\* C9: when two invocations against the same (initially absent) year store
\* have both succeeded, the structured file is what the later writer wrote:
\* it holds one or two records, the first of them one of the two new ones,
\* and it holds only one of the two exactly when both invocations read the
\* file before either wrote it (the other update is lost); the same holds
\* of the text mirror.
C9_LostUpdate ==
    BothDone =>
        LET y == procs[1].year
        IN  /\ Len(Records(files, y)) \in {1, 2}
            /\ Head(Records(files, y)) \in {procs[1].entry, procs[2].entry}
            /\ (Len(Records(files, y)) = 1 <=> procs[1].data = procs[2].data)
            /\ Len(Blocks(files, y)) \in {1, 2}
            /\ Head(Blocks(files, y)) \in {procs[1].entry, procs[2].entry}
            /\ (Len(Blocks(files, y)) = 1 <=> procs[1].rd = procs[2].rd)

\* both updates of one of two different records were lost
C9_Witness ==
    /\ BothDone
    /\ procs[1].entry # procs[2].entry
    /\ Records(files, procs[1].year) = <<procs[2].entry>>
    /\ Blocks(files, procs[1].year) = <<procs[2].entry>>

====
